---- MODULE Spec2Model ----
(***************************************************************************)
(* Model of CedarJavaFFI/src/objects.rs: the typed wrappers around Java    *)
(* objects (JString, JEntityTypeName, JOptional, JEntityId, JEntityUID,    *)
(* JPolicy, JFormatterConfig), their constructors, casts and parsers.      *)
(*                                                                         *)
(* A Rust String is a sequence of one-character strings.  A Java object is *)
(* a record with a cls field; Java strings and lists are immutable here    *)
(* and are held by value.  Every fallible Rust expression evaluates to a   *)
(* step record [tag, val, err, log]: tag is "Ok", "Err" or "Panic", log is *)
(* the trace of JNI calls, native parses and wrapper returns it made.      *)
(* The parameter f of an operation is the source line of the one JNI       *)
(* invocation the managed runtime fails during the call (0: none fails).   *)
(***************************************************************************)
EXTENDS Naturals, Integers, Sequences, FiniteSets, TLC

VARIABLES pc, op, log, result, prev

vars == <<pc, op, log, result, prev>>

(***************************************************************************)
(* Bounds of the model.                                                    *)
(***************************************************************************)
\* Most characters in all the components of one type name taken together.
MaxChars == 4
\* Most namespace components of one type name.
MaxNs == 2

(***************************************************************************)
(* Strings.                                                                *)
(***************************************************************************)
Letters == {"a"}
Chars == Letters \cup {":", " "}
Quote == "\""

RECURSIVE StrsOfLen(_)
StrsOfLen(n) ==
  IF n = 0 THEN {<<>>}
  ELSE {Append(s, c) : s \in StrsOfLen(n - 1), c \in Chars}

StrsUpTo(n) == UNION {StrsOfLen(k) : k \in 0..n}

RECURSIVE TotalLen(_)
TotalLen(v) == IF v = <<>> THEN 0 ELSE Len(Head(v)) + TotalLen(Tail(v))

\* Lists of at most k strings holding at most n characters together.
RECURSIVE ListsWithin(_, _)
ListsWithin(k, n) ==
  IF k = 0 THEN {<<>>}
  ELSE LET shorter == ListsWithin(k - 1, n)
       IN shorter \cup
          UNION {{Append(l, s) : s \in StrsUpTo(n - TotalLen(l))} :
                   l \in {m \in shorter : Len(m) = k - 1}}

Drop(s, n) == SubSeq(s, n + 1, Len(s))

\* s.contains(t)
Contains(s, t) ==
  \E i \in 1..(Len(s) + 1 - Len(t)) : SubSeq(s, i, i + Len(t) - 1) = t

\* v.join(sep)
RECURSIVE Join(_, _)
Join(v, sep) ==
  IF v = <<>> THEN <<>>
  ELSE IF Len(v) = 1 THEN v[1]
  ELSE v[1] \o sep \o Join(Tail(v), sep)

Sep == <<":", ":">>

(***************************************************************************)
(* The native Cedar values and their parsers (crate cedar_policy).         *)
(* FromStr for EntityTypeName and for EntityUid accepts the normalized     *)
(* representation only: the source is parsed by the Cedar grammar, which   *)
(* skips whitespace between tokens, and is then rejected unless printing   *)
(* the parsed value gives the source back.  Reserved words cannot be       *)
(* spelled over Letters, and identifiers need no escaping over Chars.      *)
(***************************************************************************)
NativeOk(v) == [ok |-> TRUE, val |-> v]
NativeErr == [ok |-> FALSE, val |-> <<>>]

RECURSIVE IdentLen(_)
IdentLen(s) ==
  IF s # <<>> /\ Head(s) \in Letters THEN 1 + IdentLen(Tail(s)) ELSE 0

RECURSIVE LiteralLen(_)
\* Characters before the closing quote of a string literal, or -1.
LiteralLen(s) ==
  IF s = <<>> THEN 0 - 1
  ELSE IF Head(s) = Quote THEN 0
  ELSE LET n == LiteralLen(Tail(s)) IN IF n < 0 THEN n ELSE n + 1

RECURSIVE Lex(_)
Lex(s) ==
  IF s = <<>> THEN <<>>
  ELSE IF Head(s) = " " THEN Lex(Tail(s))
  ELSE IF Head(s) \in Letters
    THEN LET n == IdentLen(s)
         IN <<[t |-> "id", v |-> SubSeq(s, 1, n)]>> \o Lex(Drop(s, n))
  ELSE IF Len(s) >= 2 /\ SubSeq(s, 1, 2) = Sep
    THEN <<[t |-> "::", v |-> <<>>]>> \o Lex(Drop(s, 2))
  ELSE IF Head(s) = Quote /\ LiteralLen(Tail(s)) >= 0
    THEN LET n == LiteralLen(Tail(s))
         IN <<[t |-> "str", v |-> SubSeq(s, 2, n + 1)]>> \o Lex(Drop(s, n + 2))
  ELSE <<[t |-> "bad", v |-> <<>>]>> \o Lex(Tail(s))

\* Tokens of a name: id (:: id)*
IsNameTokens(ts) ==
  /\ Len(ts) % 2 = 1
  /\ \A i \in 1..Len(ts) : ts[i].t = (IF i % 2 = 1 THEN "id" ELSE "::")

\* ast::Name: the basename and the namespace components before it.
NameOfTokens(ts) ==
  LET ids == [i \in 1..((Len(ts) + 1) \div 2) |-> ts[2 * i - 1].v]
  IN [path |-> SubSeq(ids, 1, Len(ids) - 1), id |-> ids[Len(ids)]]

parse_name(s) ==
  LET ts == Lex(s)
  IN IF IsNameTokens(ts) THEN NativeOk(NameOfTokens(ts)) ELSE NativeErr

namespace_components(etype) == etype.path
basename(etype) == etype.id

\* Display for EntityTypeName
Name_to_string(n) == Join(Append(n.path, n.id), Sep)

\* <EntityTypeName as FromStr>::from_str
EntityTypeName_from_str(s) ==
  LET r == parse_name(s)
  IN IF r.ok /\ Name_to_string(r.val) = s THEN r ELSE NativeErr

\* <EntityId as FromStr>::from_str: infallible
EntityId_from_str(s) == [id |-> s]

parse_euid(s) ==
  LET ts == Lex(s)
      n == Len(ts)
  IN IF /\ n >= 3
        /\ ts[n].t = "str"
        /\ ts[n - 1].t = "::"
        /\ IsNameTokens(SubSeq(ts, 1, n - 2))
     THEN NativeOk([ty |-> NameOfTokens(SubSeq(ts, 1, n - 2)),
                    eid |-> EntityId_from_str(ts[n].v)])
     ELSE NativeErr

\* Display for EntityUid
EntityUid_to_string(e) ==
  Name_to_string(e.ty) \o Sep \o <<Quote>> \o e.eid.id \o <<Quote>>

\* <EntityUid as FromStr>::from_str
EntityUid_from_str(s) ==
  LET r == parse_euid(s)
  IN IF r.ok /\ EntityUid_to_string(r.val) = s THEN r ELSE NativeErr

type_name(eid) == eid.ty
id(eid) == eid.eid

(***************************************************************************)
(* Step records and the sequencing of fallible expressions.                *)
(***************************************************************************)
Null == [cls |-> "null"]

Ok(v) == [tag |-> "Ok", val |-> v, err |-> "", log |-> <<>>]
Err(e) == [tag |-> "Err", val |-> Null, err |-> e, log |-> <<>>]

\* The step r with event e recorded before it.
Logged(e, r) == [r EXCEPT !.log = <<e>> \o @]

\* `r?` followed by the rest of the function body K: the first error returns.
Try(r, K(_)) ==
  IF r.tag = "Ok" THEN LET k == K(r.val) IN [k EXCEPT !.log = r.log \o @] ELSE r

\* Result::unwrap and Result::expect: an Err panics.
unwrap(r) == IF r.tag = "Err" THEN [r EXCEPT !.tag = "Panic"] ELSE r

\* Ok(Self { .. }) of a typed wrapper, recorded in the trace.
Return(kind, at, w) ==
  Logged([ev |-> "return", what |-> kind, at |-> at, wrapper |-> w], Ok(w))

(***************************************************************************)
(* The Java classes of the managed side (package com.cedarpolicy and the   *)
(* Java library): what their constructors store and their getters return.  *)
(***************************************************************************)
CLS_STRING == "java/lang/String"
CLS_LIST == "java/util/List"
CLS_OPTIONAL == "java/util/Optional"
CLS_ENTITY_TYPE_NAME == "com/cedarpolicy/value/EntityTypeName"
CLS_ENTITY_IDENTIFIER == "com/cedarpolicy/value/EntityIdentifier"
CLS_ENTITY_UID == "com/cedarpolicy/value/EntityUID"
CLS_POLICY == "com/cedarpolicy/model/policy/Policy"
CLS_CONFIG == "com/cedarpolicy/model/formatter/Config"

JStr(s) == [cls |-> CLS_STRING, chars |-> s]
JList(items) == [cls |-> CLS_LIST, items |-> items]
JStrList(v) == JList([i \in 1..Len(v) |-> JStr(v[i])])

EntityTypeNameCtor(namespace, base) ==
  [cls |-> CLS_ENTITY_TYPE_NAME, namespace |-> namespace, basename |-> base]
EntityIdentifierCtor(str) == [cls |-> CLS_ENTITY_IDENTIFIER, id |-> str]
EntityUIDCtor(entity_type, eid) ==
  [cls |-> CLS_ENTITY_UID, type |-> entity_type, id |-> eid]
PolicyCtor(policy_string, policy_id_string) ==
  [cls |-> CLS_POLICY, policySrc |-> policy_string, policyID |-> policy_id_string]
ConfigObj(lineWidth, indentWidth) ==
  [cls |-> CLS_CONFIG, lineWidth |-> lineWidth, indentWidth |-> indentWidth]
OptionalEmptyObj == [cls |-> CLS_OPTIONAL, present |-> FALSE, value |-> Null]
OptionalOfObj(o) == [cls |-> CLS_OPTIONAL, present |-> TRUE, value |-> o]

Methods(cls) ==
  CASE cls = CLS_ENTITY_TYPE_NAME -> {"getNamespace", "getBaseName"}
    [] cls = CLS_ENTITY_IDENTIFIER -> {"getId"}
    [] cls = CLS_CONFIG -> {"getLineWidth", "getIndentWidth"}
    [] OTHER -> {}

Invoke(obj, name) ==
  CASE name = "getNamespace" -> obj.namespace
    [] name = "getBaseName" -> obj.basename
    [] name = "getId" -> obj.id
    [] name = "getLineWidth" -> obj.lineWidth
    [] name = "getIndentWidth" -> obj.indentWidth

(***************************************************************************)
(* The JNI surface (crate jni) and the helpers of utils.rs and jlist.rs.   *)
(***************************************************************************)
MANAGED_CALL_FAILURE == "managed-call-failure"
STRING_DECODE_FAILURE == "string-decode-failure"
IDENTITY_MISMATCH == "identity-mismatch"
PARSE_FAILURE == "parse-failure"

\* JNIEnv::new_object: the constructor call yields obj unless it fails.
new_object(f, at, cls, obj) ==
  Logged([ev |-> "new_object", what |-> cls, at |-> at],
         IF f = at THEN Err(MANAGED_CALL_FAILURE) ELSE Ok(obj))

\* JNIEnv::call_method
call_method(f, at, obj, name) ==
  Logged([ev |-> "call_method", what |-> name, at |-> at],
         IF f = at \/ name \notin Methods(obj.cls)
         THEN Err(MANAGED_CALL_FAILURE)
         ELSE Ok(Invoke(obj, name)))

\* JNIEnv::call_static_method on java/util/Optional; Optional.of(null) throws.
call_static_method(f, at, name, arg) ==
  Logged([ev |-> "call_static_method", what |-> name, at |-> at],
         IF f = at \/ (name = "of" /\ arg = Null)
         THEN Err(MANAGED_CALL_FAILURE)
         ELSE Ok(IF name = "empty" THEN OptionalEmptyObj ELSE OptionalOfObj(arg)))

\* JNIEnv::new_string
new_string(f, at, s) ==
  Logged([ev |-> "new_string", what |-> CLS_STRING, at |-> at],
         IF f = at THEN Err(MANAGED_CALL_FAILURE) ELSE Ok(JStr(s)))

\* JNIEnv::get_string followed by String::from: fails on a null reference.
get_string(at, jstr) ==
  Logged([ev |-> "get_string", what |-> CLS_STRING, at |-> at],
         IF jstr.cls = CLS_STRING THEN Ok(jstr.chars) ELSE Err(STRING_DECODE_FAILURE))

\* utils::assert_is_class
assert_is_class(at, obj, cls) ==
  Logged([ev |-> "assert_is_class", what |-> cls, at |-> at],
         IF obj.cls = cls THEN Ok(obj) ELSE Err(IDENTITY_MISMATCH))

\* utils::get_object_ref: the reference held by an object-typed JValue
get_object_ref(v) == Ok(v)

\* JValue::i
jvalue_i(v) == Ok(v)

\* jlist::List::new
List_new(f, at) == new_object(f, at, CLS_LIST, JList(<<>>))

\* jlist::List::add
List_add(f, at, list, item) ==
  Logged([ev |-> "call_method", what |-> "add", at |-> at],
         IF f = at THEN Err(MANAGED_CALL_FAILURE)
         ELSE Ok(JList(Append(list.items, item))))

\* jlist::List::cast_unchecked
List_cast_unchecked(obj) == Ok(obj)

\* jlist::jstr_list_to_rust_vec
jstr_list_to_rust_vec(at, list) ==
  Logged([ev |-> "jstr_list_to_rust_vec", what |-> CLS_LIST, at |-> at],
         IF list.cls = CLS_LIST /\ \A i \in 1..Len(list.items) : list.items[i].cls = CLS_STRING
         THEN Ok([i \in 1..Len(list.items) |-> list.items[i].chars])
         ELSE Err(MANAGED_CALL_FAILURE))

\* str::parse::<EntityTypeName>, its error converted by `?`
parse_type_name(at, src) ==
  Logged([ev |-> "parse", what |-> "EntityTypeName", at |-> at, src |-> src],
         LET r == EntityTypeName_from_str(src)
         IN IF r.ok THEN Ok(r.val) ELSE Err(PARSE_FAILURE))

(***************************************************************************)
(* impl Object for JString                                                 *)
(***************************************************************************)
JString_cast(obj) ==
  Try(assert_is_class(40, obj, CLS_STRING), LAMBDA o : Ok(o))

(***************************************************************************)
(* JEntityTypeName                                                         *)
(***************************************************************************)
\* Mutant: the basename is put before the namespace components.
basename_first(namespace_vec, basename_str) == <<basename_str>> \o namespace_vec

\* full_type_name: the namespace components, then the basename pushed last
full_type_name(namespace_vec, basename_str) == Append(namespace_vec, basename_str)

\* Mutant: the components are not searched for "::".
no_colon_check(v) == FALSE

has_namespace_component_with_colon(v) ==
  \E i \in 1..Len(v) : Contains(v[i], Sep)

\* Mutant: the components are joined with no separator.
join_without_separator(v) == Join(v, <<>>)

full_ns_str(v) == Join(v, Sep)

JEntityTypeName_new(f, jbasename, namespace) ==
  Try(get_string(59, jbasename), LAMBDA basename_str :
  Try(jstr_list_to_rust_vec(61, namespace), LAMBDA namespace_vec :
    LET v == full_type_name(namespace_vec, basename_str)
    IN IF has_namespace_component_with_colon(v)
       THEN Err(PARSE_FAILURE)
       ELSE
  Try(parse_type_name(68, full_ns_str(v)), LAMBDA tn :
  Try(unwrap(new_object(f, 70, CLS_ENTITY_TYPE_NAME,
                        EntityTypeNameCtor(namespace, jbasename))), LAMBDA obj :
    Return("JEntityTypeName", 79, [obj |-> obj, type_name |-> tn])))))

RECURSIVE add_parts_last_first(_, _, _)
\* Mutant: the loop walks the namespace components from the last to the first.
add_parts_last_first(f, namespace_array, parts) ==
  IF parts = <<>> THEN Ok(namespace_array)
  ELSE
    Try(new_string(f, 109, parts[Len(parts)]), LAMBDA part_str :
    Try(List_add(f, 110, namespace_array, part_str), LAMBDA added :
      add_parts_last_first(f, added, SubSeq(parts, 1, Len(parts) - 1))))

RECURSIVE add_parts(_, _, _)
\* The loop of try_from over the namespace components not yet added.
add_parts(f, namespace_array, parts) ==
  IF parts = <<>> THEN Ok(namespace_array)
  ELSE
    Try(new_string(f, 109, Head(parts)), LAMBDA part_str :
    Try(List_add(f, 110, namespace_array, part_str), LAMBDA added :
      add_parts(f, added, Tail(parts))))

JEntityTypeName_try_from(f, etype) ==
  Try(new_string(f, 106, basename(etype)), LAMBDA jbasename :
  Try(List_new(f, 107), LAMBDA empty_array :
  Try(add_parts(f, empty_array, namespace_components(etype)), LAMBDA namespace_array :
    JEntityTypeName_new(f, jbasename, namespace_array))))

\* Mutant: getBaseName is called before getNamespace.
JEntityTypeName_cast_basename_first(f, obj) ==
  Try(assert_is_class(130, obj, CLS_ENTITY_TYPE_NAME), LAMBDA checked :
  Try(call_method(f, 133, obj, "getBaseName"), LAMBDA jbase :
  Try(get_object_ref(jbase), LAMBDA jbase_ref :
  Try(JString_cast(jbase_ref), LAMBDA jbasename :
  Try(call_method(f, 131, obj, "getNamespace"), LAMBDA namespace :
  Try(get_object_ref(namespace), LAMBDA namespace_ref :
  Try(List_cast_unchecked(namespace_ref), LAMBDA namespace_list :
  Try(get_string(135, jbasename), LAMBDA basename_str :
  Try(jstr_list_to_rust_vec(137, namespace_list), LAMBDA namespace_vec :
    LET v == full_type_name(namespace_vec, basename_str)
    IN IF has_namespace_component_with_colon(v)
       THEN Err(PARSE_FAILURE)
       ELSE
  Try(parse_type_name(144, full_ns_str(v)), LAMBDA tn :
    Return("JEntityTypeName", 145, [obj |-> obj, type_name |-> tn])))))))))))

\* Mutant: the components read from the object are joined and parsed with no
\* search for "::".
JEntityTypeName_cast_unvalidated(f, obj) ==
  Try(assert_is_class(130, obj, CLS_ENTITY_TYPE_NAME), LAMBDA checked :
  Try(call_method(f, 131, obj, "getNamespace"), LAMBDA namespace :
  Try(get_object_ref(namespace), LAMBDA namespace_ref :
  Try(List_cast_unchecked(namespace_ref), LAMBDA namespace_list :
  Try(call_method(f, 133, obj, "getBaseName"), LAMBDA jbase :
  Try(get_object_ref(jbase), LAMBDA jbase_ref :
  Try(JString_cast(jbase_ref), LAMBDA jbasename :
  Try(get_string(135, jbasename), LAMBDA basename_str :
  Try(jstr_list_to_rust_vec(137, namespace_list), LAMBDA namespace_vec :
  Try(parse_type_name(144, full_ns_str(full_type_name(namespace_vec, basename_str))),
      LAMBDA tn :
    Return("JEntityTypeName", 145, [obj |-> obj, type_name |-> tn])))))))))))

JEntityTypeName_cast(f, obj) ==
  Try(assert_is_class(130, obj, CLS_ENTITY_TYPE_NAME), LAMBDA checked :
  Try(call_method(f, 131, obj, "getNamespace"), LAMBDA namespace :
  Try(get_object_ref(namespace), LAMBDA namespace_ref :
  Try(List_cast_unchecked(namespace_ref), LAMBDA namespace_list :
  Try(call_method(f, 133, obj, "getBaseName"), LAMBDA jbase :
  Try(get_object_ref(jbase), LAMBDA jbase_ref :
  Try(JString_cast(jbase_ref), LAMBDA jbasename :
  Try(get_string(135, jbasename), LAMBDA basename_str :
  Try(jstr_list_to_rust_vec(137, namespace_list), LAMBDA namespace_vec :
    LET v == full_type_name(namespace_vec, basename_str)
    IN IF has_namespace_component_with_colon(v)
       THEN Err(PARSE_FAILURE)
       ELSE
  Try(parse_type_name(144, full_ns_str(v)), LAMBDA tn :
    Return("JEntityTypeName", 145, [obj |-> obj, type_name |-> tn])))))))))))

(***************************************************************************)
(* JOptional                                                               *)
(***************************************************************************)
\* <T as AsRef<JObject>>::as_ref
as_ref(t) == IF "obj" \in DOMAIN t THEN t.obj ELSE t

None == [some |-> FALSE, val |-> Null]
Some(t) == [some |-> TRUE, val |-> t]

JOptional_empty(f) ==
  Try(call_static_method(f, 175, "empty", Null), LAMBDA value :
    Ok([value |-> value]))

JOptional_of(f, t) ==
  Try(call_static_method(f, 184, "of", as_ref(t)), LAMBDA value :
    Ok([value |-> value]))

\* Mutant: None becomes a null reference, with no call of Optional.empty().
from_optional_null_for_none(f, t) ==
  IF t.some THEN JOptional_of(f, t.val) ELSE Ok([value |-> Null])

JOptional_from_optional(f, t) ==
  IF t.some THEN JOptional_of(f, t.val) ELSE JOptional_empty(f)

\* Mutant: the native parse error is returned with `?`.
JEntityTypeName_parse_propagating(f, src) ==
  LET r == EntityTypeName_from_str(src)
  IN Logged([ev |-> "parse", what |-> "EntityTypeName", at |-> 118, src |-> src],
       IF r.ok
       THEN Try(JEntityTypeName_try_from(f, r.val), LAMBDA jetype :
              JOptional_of(f, jetype))
       ELSE Err(PARSE_FAILURE))

\* JEntityTypeName::parse
JEntityTypeName_parse(f, src) ==
  LET r == EntityTypeName_from_str(src)
  IN Logged([ev |-> "parse", what |-> "EntityTypeName", at |-> 118, src |-> src],
       IF r.ok
       THEN Try(JEntityTypeName_try_from(f, r.val), LAMBDA jetype :
              JOptional_of(f, jetype))
       ELSE JOptional_empty(f))

(***************************************************************************)
(* JEntityId                                                               *)
(***************************************************************************)
JEntityId_new(f, str) ==
  Try(new_object(f, 227, CLS_ENTITY_IDENTIFIER, EntityIdentifierCtor(str)), LAMBDA obj :
  Try(get_string(233, str), LAMBDA src :
    Return("JEntityId", 239, [obj |-> obj, id |-> EntityId_from_str(src)])))

JEntityId_try_from(f, eid) ==
  Try(new_string(f, 244, eid.id), LAMBDA jstring :
    JEntityId_new(f, jstring))

\* Mutant: getId is called before the class is checked.
JEntityId_cast_accessor_first(f, obj) ==
  Try(call_method(f, 262, obj, "getId"), LAMBDA v :
  Try(assert_is_class(261, obj, CLS_ENTITY_IDENTIFIER), LAMBDA checked :
  Try(get_object_ref(v), LAMBDA id_field :
  Try(JString_cast(id_field), LAMBDA jstring_obj :
  Try(get_string(265, jstring_obj), LAMBDA str :
    Return("JEntityId", 268, [obj |-> obj, id |-> EntityId_from_str(str)]))))))

JEntityId_cast(f, obj) ==
  Try(assert_is_class(261, obj, CLS_ENTITY_IDENTIFIER), LAMBDA checked :
  Try(call_method(f, 262, obj, "getId"), LAMBDA v :
  Try(get_object_ref(v), LAMBDA id_field :
  Try(JString_cast(id_field), LAMBDA jstring_obj :
  Try(get_string(265, jstring_obj), LAMBDA str :
    Return("JEntityId", 268, [obj |-> obj, id |-> EntityId_from_str(str)]))))))

(***************************************************************************)
(* JEntityUID                                                              *)
(***************************************************************************)
JEntityUID_new(f, entity_type, eid) ==
  Try(new_object(f, 293, CLS_ENTITY_UID,
                 EntityUIDCtor(as_ref(entity_type), as_ref(eid))), LAMBDA obj :
    Return("JEntityUID", 301, [obj |-> obj]))

JEntityUID_parse(f, src) ==
  LET r == EntityUid_from_str(src)
  IN Logged([ev |-> "parse", what |-> "EntityUid", at |-> 306, src |-> src],
       IF r.ok
       THEN Try(JEntityId_try_from(f, id(r.val)), LAMBDA jid :
            Try(JEntityTypeName_try_from(f, type_name(r.val)), LAMBDA entity_type :
            Try(JEntityUID_new(f, entity_type, jid), LAMBDA obj :
              JOptional_of(f, obj))))
       ELSE JOptional_empty(f))

JEntityUID_cast(obj) ==
  Try(assert_is_class(321, obj, CLS_ENTITY_UID), LAMBDA checked :
    Return("JEntityUID", 322, [obj |-> obj]))

(***************************************************************************)
(* JPolicy                                                                 *)
(***************************************************************************)
JPolicy_new(f, policy_string, policy_id_string) ==
  Try(unwrap(new_object(f, 346, CLS_POLICY,
                        PolicyCtor(policy_string, policy_id_string))), LAMBDA obj :
    Return("JPolicy", 356, [obj |-> obj]))

JPolicy_cast(obj) ==
  Try(assert_is_class(362, obj, CLS_POLICY), LAMBDA checked :
    Return("JPolicy", 363, [obj |-> obj]))

(***************************************************************************)
(* JFormatterConfig                                                        *)
(***************************************************************************)
\* usize::try_from(jint): a negative value does not convert
usize_try_from(n) == IF n >= 0 THEN Ok(n) ELSE Err(PARSE_FAILURE)

\* isize::try_from(jint): every 32-bit value converts
isize_try_from(n) == Ok(n)

JFormatterConfig_cast(f, obj) ==
  Try(assert_is_class(392, obj, CLS_CONFIG), LAMBDA checked :
  Try(call_method(f, 393, obj, "getLineWidth"), LAMBDA lw :
  Try(jvalue_i(lw), LAMBDA line_width_jint :
  Try(call_method(f, 394, obj, "getIndentWidth"), LAMBDA iw :
  Try(jvalue_i(iw), LAMBDA indent_width_jint :
  Try(usize_try_from(line_width_jint), LAMBDA line_width :
  Try(isize_try_from(indent_width_jint), LAMBDA indent_width :
    Return("JFormatterConfig", 399,
           [obj |-> obj,
            formatter_config |-> [line_width |-> line_width,
                                  indent_width |-> indent_width]]))))))))

(***************************************************************************)
(* The inputs of the operations.                                           *)
(***************************************************************************)
\* Non-empty component lists: the namespace components, then the basename.
ComponentLists == ListsWithin(MaxNs + 1, MaxChars)
Components == ComponentLists \ {<<>>}
NamespaceOf(v) == SubSeq(v, 1, Len(v) - 1)
BasenameOf(v) == v[Len(v)]

IsIdent(s) == s # <<>> /\ \A i \in 1..Len(s) : s[i] \in Letters

\* The native values an EntityTypeName, an EntityId and an EntityUid can hold.
NativeTypeNames ==
  {[path |-> NamespaceOf(v), id |-> BasenameOf(v)] :
     v \in {w \in Components : \A i \in 1..Len(w) : IsIdent(w[i])}}
NativeIds == {EntityId_from_str(s) : s \in StrsUpTo(MaxChars)}
\* A type name and an id holding at most MaxChars characters together.
NativeUids ==
  {e \in [ty : NativeTypeNames, eid : NativeIds] :
     TotalLen(Append(e.ty.path, e.ty.id)) + Len(e.eid.id) <= MaxChars}

\* Source strings handed to the parse operations: every short string, the
\* printed form of every native value, and each with a blank before or after.
Printed ==
  StrsUpTo(MaxChars)
    \cup {Name_to_string(n) : n \in NativeTypeNames}
    \cup {EntityUid_to_string(e) : e \in NativeUids}
Sources == Printed \cup {<<" ">> \o s : s \in Printed} \cup {s \o <<" ">> : s \in Printed}

\* 32-bit jint values
JInts == {0 - 2147483647 - 1, 0 - 1, 0, 2, 2147483647}

\* Objects built on the managed side, fields possibly null.
ManagedStrings == {Null} \cup {JStr(s) : s \in StrsUpTo(MaxChars)}
ManagedTypeNames ==
  {EntityTypeNameCtor(JStrList(NamespaceOf(v)), JStr(BasenameOf(v))) : v \in Components}
    \cup {EntityTypeNameCtor(Null, b) : b \in {Null, JStr(<<"a">>)}}
    \cup {EntityTypeNameCtor(ns, Null) :
            ns \in {JStrList(<<>>), JStrList(<<<<"a">>>>), JStrList(<<<<":", ":">>>>)}}
    \cup {EntityTypeNameCtor(JList(<<Null>>), JStr(<<"a">>))}
ManagedIds == {EntityIdentifierCtor(s) : s \in ManagedStrings}
ManagedUids ==
  {EntityUIDCtor(t, i) :
     t \in {Null, EntityTypeNameCtor(JStrList(<<>>), JStr(<<"a">>))},
     i \in {Null, EntityIdentifierCtor(JStr(<<"a">>))}}
ManagedPolicies ==
  {PolicyCtor(s, i) : s \in {Null, JStr(<<"a">>)}, i \in {Null, JStr(<<"a">>)}}
ManagedConfigs == {ConfigObj(lw, iw) : lw \in JInts, iw \in JInts}
\* One or two objects of every class, for casts to a wrapper of another class.
OtherClassObjs ==
  ManagedUids \cup ManagedPolicies \cup {OptionalEmptyObj, Null}
    \cup {JStr(<<>>), JStr(<<"a">>), JStrList(<<>>)}
    \cup {EntityTypeNameCtor(JStrList(<<<<"a">>>>), JStr(<<"a">>)),
          EntityTypeNameCtor(JStrList(<<<<":", ":">>>>), JStr(<<"a">>)),
          EntityIdentifierCtor(JStr(<<"a">>)), EntityIdentifierCtor(Null),
          ConfigObj(2, 2), ConfigObj(0 - 1, 0)}

\* The managed objects presented to the cast of each wrapper.
StringCastInputs == ManagedStrings \cup OtherClassObjs
TypeNameCastInputs == ManagedTypeNames \cup OtherClassObjs
IdCastInputs == ManagedIds \cup OtherClassObjs
ConfigCastInputs == ManagedConfigs \cup OtherClassObjs
ManagedFor(cls) ==
  CASE cls = CLS_STRING -> StringCastInputs
    [] cls = CLS_ENTITY_TYPE_NAME -> TypeNameCastInputs
    [] cls = CLS_ENTITY_IDENTIFIER -> IdCastInputs
    [] cls = CLS_CONFIG -> ConfigCastInputs
    [] OTHER -> OtherClassObjs

\* Identifier wrappers a caller can hold: what JEntityId::new returns.
IdWrappers == {JEntityId_new(0, JStr(s)).val : s \in StrsUpTo(1)}

(***************************************************************************)
(* The state machine.  Every operation is one synchronous call; a call     *)
(* made while the previous result is in scope may take that result as its  *)
(* argument, and prev then records the call that produced it.              *)
(***************************************************************************)
NoOp == [name |-> "none"]
NoResult == [tag |-> "none", val |-> Null, err |-> ""]
NoPrev == [op |-> NoOp, result |-> NoResult]

Init ==
  /\ pc = "idle"
  /\ op = NoOp
  /\ log = <<>>
  /\ result = NoResult
  /\ prev = NoPrev

\* The call o is made and r is what it evaluates to.
Call(o, r) ==
  /\ pc' = "done"
  /\ op' = o
  /\ log' = r.log
  /\ result' = [tag |-> r.tag, val |-> r.val, err |-> r.err]
  /\ prev' = IF pc = "idle" THEN NoPrev ELSE [op |-> op, result |-> result]

\* The previous call returned a value that projects to a JObject.
HasObject == pc = "done" /\ result.tag = "Ok" /\ op.name \notin
  {"JOptional::empty", "JOptional::of", "JOptional::from_optional",
   "JEntityTypeName::parse", "JEntityUID::parse"}

\* The untyped references the cast to the wrapper of class cls can be given.
CastInputs(cls) ==
  IF pc = "idle" THEN ManagedFor(cls)
  ELSE IF HasObject THEN {as_ref(result.val)} ELSE {}

IsTypeNameWrapper == HasObject /\ op.name \in
  {"JEntityTypeName::new", "JEntityTypeName::try_from", "JEntityTypeName::cast"}

JStringCast ==
  \E obj \in CastInputs(CLS_STRING) :
    Call([name |-> "JString::cast", f |-> 0, obj |-> obj], JString_cast(obj))

TypeNameNew ==
  /\ pc = "idle"
  /\ \E v \in Components, f \in {0, 70} :
       Call([name |-> "JEntityTypeName::new", f |-> f,
             basename |-> BasenameOf(v), namespace |-> NamespaceOf(v)],
            JEntityTypeName_new(f, JStr(BasenameOf(v)), JStrList(NamespaceOf(v))))

TypeNameTryFrom ==
  /\ pc = "idle"
  /\ \E etype \in NativeTypeNames, f \in {0, 106, 107, 109, 110, 70} :
       Call([name |-> "JEntityTypeName::try_from", f |-> f, etype |-> etype],
            JEntityTypeName_try_from(f, etype))

TypeNameParse ==
  /\ pc = "idle"
  /\ \E src \in Sources, f \in {0, 106, 107, 109, 110, 70, 175, 184} :
       Call([name |-> "JEntityTypeName::parse", f |-> f, src |-> src],
            JEntityTypeName_parse(f, src))

TypeNameCast ==
  \E obj \in CastInputs(CLS_ENTITY_TYPE_NAME), f \in {0, 131, 133} :
    Call([name |-> "JEntityTypeName::cast", f |-> f, obj |-> obj],
         JEntityTypeName_cast(f, obj))

OptionalEmpty ==
  /\ pc = "idle"
  /\ \E f \in {0, 175} :
       Call([name |-> "JOptional::empty", f |-> f], JOptional_empty(f))

OptionalOf ==
  /\ HasObject
  /\ \E f \in {0, 184} :
       Call([name |-> "JOptional::of", f |-> f, t |-> result.val],
            JOptional_of(f, result.val))

OptionalFromOptional ==
  \E f \in {0, 175, 184} :
    \E t \in IF pc = "idle" THEN {None} ELSE IF HasObject THEN {Some(result.val)} ELSE {} :
      Call([name |-> "JOptional::from_optional", f |-> f, t |-> t],
           JOptional_from_optional(f, t))

EntityIdNew ==
  /\ pc = "idle"
  /\ \E s \in StrsUpTo(MaxChars), f \in {0, 227} :
       Call([name |-> "JEntityId::new", f |-> f, str |-> s],
            JEntityId_new(f, JStr(s)))

EntityIdTryFrom ==
  /\ pc = "idle"
  /\ \E eid \in NativeIds, f \in {0, 244, 227} :
       Call([name |-> "JEntityId::try_from", f |-> f, id |-> eid],
            JEntityId_try_from(f, eid))

EntityIdCast ==
  \E obj \in CastInputs(CLS_ENTITY_IDENTIFIER), f \in {0, 262} :
    Call([name |-> "JEntityId::cast", f |-> f, obj |-> obj],
         JEntityId_cast(f, obj))

EntityUIDNew ==
  /\ IsTypeNameWrapper
  /\ \E eid \in IdWrappers, f \in {0, 293} :
       Call([name |-> "JEntityUID::new", f |-> f,
             entity_type |-> result.val, id |-> eid],
            JEntityUID_new(f, result.val, eid))

EntityUIDParse ==
  /\ pc = "idle"
  /\ \E src \in Sources, f \in {0, 244, 227, 106, 107, 109, 110, 70, 293, 175, 184} :
       Call([name |-> "JEntityUID::parse", f |-> f, src |-> src],
            JEntityUID_parse(f, src))

EntityUIDCast ==
  \E obj \in CastInputs(CLS_ENTITY_UID) :
    Call([name |-> "JEntityUID::cast", f |-> 0, obj |-> obj], JEntityUID_cast(obj))

PolicyNew ==
  /\ pc = "idle"
  /\ \E s \in StrsUpTo(1), i \in StrsUpTo(1), f \in {0, 346} :
       Call([name |-> "JPolicy::new", f |-> f,
             policy_string |-> s, policy_id_string |-> i],
            JPolicy_new(f, JStr(s), JStr(i)))

PolicyCast ==
  \E obj \in CastInputs(CLS_POLICY) :
    Call([name |-> "JPolicy::cast", f |-> 0, obj |-> obj], JPolicy_cast(obj))

FormatterConfigCast ==
  \E obj \in CastInputs(CLS_CONFIG), f \in {0, 393, 394} :
    Call([name |-> "JFormatterConfig::cast", f |-> f, obj |-> obj],
         JFormatterConfig_cast(f, obj))

\* The call scope 'a ends: every reference and wrapper made in it is dropped.
ScopeExit ==
  /\ pc = "done"
  /\ pc' = "idle"
  /\ op' = NoOp
  /\ log' = <<>>
  /\ result' = NoResult
  /\ prev' = NoPrev

Next ==
  \/ JStringCast
  \/ TypeNameNew
  \/ TypeNameTryFrom
  \/ TypeNameParse
  \/ TypeNameCast
  \/ OptionalEmpty
  \/ OptionalOf
  \/ OptionalFromOptional
  \/ EntityIdNew
  \/ EntityIdTryFrom
  \/ EntityIdCast
  \/ EntityUIDNew
  \/ EntityUIDParse
  \/ EntityUIDCast
  \/ PolicyNew
  \/ PolicyCast
  \/ FormatterConfigCast
  \/ ScopeExit

Spec == Init /\ [][Next]_vars

(***************************************************************************)
(* Vocabulary of the properties.                                           *)
(***************************************************************************)
CastOps ==
  {"JString::cast", "JEntityTypeName::cast", "JEntityId::cast",
   "JEntityUID::cast", "JPolicy::cast", "JFormatterConfig::cast"}

\* The class a wrapper stands for, by the operation or the return that made it.
ExpectedClass(name) ==
  CASE name \in {"JString::cast"} -> CLS_STRING
    [] name \in {"JEntityTypeName::cast", "JEntityTypeName::new",
                 "JEntityTypeName::try_from", "JEntityTypeName"} -> CLS_ENTITY_TYPE_NAME
    [] name \in {"JEntityId::cast", "JEntityId::new",
                 "JEntityId::try_from", "JEntityId"} -> CLS_ENTITY_IDENTIFIER
    [] name \in {"JEntityUID::cast", "JEntityUID::new", "JEntityUID"} -> CLS_ENTITY_UID
    [] name \in {"JPolicy::cast", "JPolicy::new", "JPolicy"} -> CLS_POLICY
    [] name \in {"JFormatterConfig::cast", "JFormatterConfig"} -> CLS_CONFIG
    [] OTHER -> "none"

Accessors == {"getNamespace", "getBaseName", "getId", "getLineWidth", "getIndentWidth"}

IsAccessorCall(e) == e.ev = "call_method" /\ e.what \in Accessors
IsAllocation(e) == e.ev \in {"new_object", "new_string", "call_static_method"}
IsCtorOf(e, cls) == e.ev = "new_object" /\ e.what = cls
IsFactory(e, name) == e.ev = "call_static_method" /\ e.what = name
IsReturnOf(e, kind) == e.ev = "return" /\ e.what = kind

\* The invocation the managed runtime was to fail was made in this call.
CallFailed == \E i \in 1..Len(log) : log[i].at = op.f
CallFailedIn(o, l) == \E i \in 1..Len(l) : l[i].at = o.f

\* The canonical join of components: namespace in order, basename last.
Canonical(namespace, base) == Join(Append(namespace, base), Sep)
AnyHasSeparator(namespace, base) ==
  \E c \in {namespace[i] : i \in 1..Len(namespace)} \cup {base} : Contains(c, Sep)

(***************************************************************************)
(* C1.  A cast of a reference whose runtime class is not the class the     *)
(* wrapper expects fails with identity-mismatch, returns no wrapper and    *)
(* calls no accessor; in every cast the class check of the expected class  *)
(* is the first event, so it precedes every accessor call.                 *)
(***************************************************************************)
C1_CastIdentityEnforced ==
  (pc = "done" /\ op.name \in CastOps) =>
    /\ Len(log) >= 1
    /\ log[1].ev = "assert_is_class"
    /\ log[1].what = ExpectedClass(op.name)
    /\ op.obj.cls # ExpectedClass(op.name) =>
         /\ result.tag = "Err"
         /\ result.err = IDENTITY_MISMATCH
         /\ \A i \in 1..Len(log) : ~IsAccessorCall(log[i])

C1_Witness ==
  /\ pc = "done"
  /\ op.name = "JEntityId::cast"
  /\ op.obj.cls = CLS_POLICY
  /\ result.tag = "Err"
  /\ result.err = IDENTITY_MISMATCH

(***************************************************************************)
(* C2.  JEntityTypeName::new on components of which one contains "::", or  *)
(* whose canonical join does not parse as a type name, returns the         *)
(* parse-failure error and never calls the EntityTypeName constructor.     *)
(***************************************************************************)
C2_RejectedInput(o) ==
  \/ AnyHasSeparator(o.namespace, o.basename)
  \/ ~EntityTypeName_from_str(Canonical(o.namespace, o.basename)).ok

C2_RejectionAllocatesNothing ==
  (pc = "done" /\ op.name = "JEntityTypeName::new" /\ C2_RejectedInput(op)) =>
    /\ result.tag = "Err"
    /\ result.err = PARSE_FAILURE
    /\ \A i \in 1..Len(log) : ~IsCtorOf(log[i], CLS_ENTITY_TYPE_NAME)

C2_Witness ==
  /\ pc = "done"
  /\ op.name = "JEntityTypeName::new"
  /\ op.namespace = <<<<"a", ":", ":">>>>
  /\ op.basename = <<"a">>
  /\ result.err = PARSE_FAILURE

(***************************************************************************)
(* C3.  A method or constructor invocation that the managed runtime fails  *)
(* is returned to the caller as an error result: the operation ends in     *)
(* Err(managed-call-failure) and in no other way.                          *)
(***************************************************************************)
C3_ManagedFailureReturned ==
  (pc = "done" /\ CallFailed) =>
    /\ result.tag = "Err"
    /\ result.err = MANAGED_CALL_FAILURE

(***************************************************************************)
(* C4.  The parse operations of JEntityTypeName and JEntityUID.            *)
(***************************************************************************)
ParseOps == {"JEntityTypeName::parse", "JEntityUID::parse"}

NativeParse(o) ==
  IF o.name = "JEntityTypeName::parse"
  THEN EntityTypeName_from_str(o.src)
  ELSE EntityUid_from_str(o.src)

\* The object the present Optional of a parse wraps was built by this call.
C4_PresentWrapsNewObject ==
  /\ result.tag = "Ok"
  /\ result.val.value.cls = CLS_OPTIONAL
  /\ result.val.value.present
  /\ result.val.value.value.cls =
       (IF op.name = "JEntityTypeName::parse"
        THEN CLS_ENTITY_TYPE_NAME ELSE CLS_ENTITY_UID)
  /\ \E i \in 1..Len(log), j \in 1..Len(log) :
       /\ i < j
       /\ IsCtorOf(log[i], result.val.value.value.cls)
       /\ log[j].ev = "return"
       /\ log[j].wrapper.obj = result.val.value.value
  /\ IsFactory(log[Len(log)], "of")

\* C4 as claimed: a source the native parser rejects always gives a successful
\* absent Optional, never an error; a source it accepts gives, when no managed
\* call fails, a present Optional around the newly built object.
C4_AbsentNeverError ==
  (pc = "done" /\ op.name \in ParseOps) =>
    /\ ~NativeParse(op).ok =>
         /\ result.tag = "Ok"
         /\ result.val.value = OptionalEmptyObj
    /\ (NativeParse(op).ok /\ ~CallFailed) => C4_PresentWrapsNewObject

\* C4 amended: a source the native parser rejects makes the one call of the
\* empty factory and returns its outcome: the absent Optional, or the
\* managed-call-failure when that call fails, and never a parse-failure; a
\* source it accepts gives, when no managed call fails, a present Optional
\* around the newly built object.
C4_AbsentUnlessFactoryFails ==
  (pc = "done" /\ op.name \in ParseOps) =>
    /\ ~NativeParse(op).ok =>
         /\ Len(log) = 2
         /\ log[1].ev = "parse"
         /\ IsFactory(log[2], "empty")
         /\ result.err # PARSE_FAILURE
         /\ IF CallFailed
            THEN result.tag = "Err" /\ result.err = MANAGED_CALL_FAILURE
            ELSE result.tag = "Ok" /\ result.val.value = OptionalEmptyObj
    /\ (NativeParse(op).ok /\ ~CallFailed) => C4_PresentWrapsNewObject

C4_Witness ==
  /\ pc = "done"
  /\ op.name = "JEntityUID::parse"
  /\ op.src = <<"a", " ", "a">>
  /\ result.tag = "Ok"
  /\ result.val.value = OptionalEmptyObj

(***************************************************************************)
(* C5.  Round trip.  For components without "::" whose canonical join      *)
(* parses, and with no managed call failing, JEntityTypeName::new succeeds *)
(* and JEntityTypeName::cast of the object it allocated succeeds, and both *)
(* wrappers hold the value the canonical join parses to.                   *)
(***************************************************************************)
C5_ValidInput(o) ==
  /\ ~AnyHasSeparator(o.namespace, o.basename)
  /\ EntityTypeName_from_str(Canonical(o.namespace, o.basename)).ok

C5_Parsed(o) == EntityTypeName_from_str(Canonical(o.namespace, o.basename)).val

C5_RoundTrip ==
  /\ (pc = "done" /\ op.name = "JEntityTypeName::new" /\ C5_ValidInput(op) /\ ~CallFailed) =>
       /\ result.tag = "Ok"
       /\ result.val.type_name = C5_Parsed(op)
       /\ \E i \in 1..Len(log) : IsCtorOf(log[i], CLS_ENTITY_TYPE_NAME)
  /\ (/\ pc = "done"
      /\ op.name = "JEntityTypeName::cast"
      /\ prev.op.name = "JEntityTypeName::new"
      /\ ~CallFailed) =>
       /\ C5_ValidInput(prev.op)
       /\ op.obj = prev.result.val.obj
       /\ result.tag = "Ok"
       /\ result.val.obj = op.obj
       /\ result.val.type_name = C5_Parsed(prev.op)
       /\ prev.result.val.type_name = C5_Parsed(prev.op)

C5_Witness ==
  /\ pc = "done"
  /\ op.name = "JEntityTypeName::cast"
  /\ prev.op.name = "JEntityTypeName::new"
  /\ prev.op.namespace = <<<<"a">>>>
  /\ prev.op.basename = <<"a", "a">>
  /\ result.tag = "Ok"
  /\ result.val.type_name = [path |-> <<<<"a">>>>, id |-> <<"a", "a">>]

(***************************************************************************)
(* C6.  JOptional::from_optional of None makes the calls of                *)
(* JOptional::empty and returns what it returns, and of Some(w) makes the  *)
(* calls of JOptional::of(w) and returns what it returns: one static       *)
(* factory call and no other, the same error when that call fails, and an  *)
(* absent value is the object of Optional.empty(), never a null reference. *)
(***************************************************************************)
Outcome(r) == [tag |-> r.tag, val |-> r.val, err |-> r.err]

C6_OptionalBridge ==
  (pc = "done" /\ op.name = "JOptional::from_optional") =>
    /\ Len(log) = 1
    /\ IF op.t.some
       THEN /\ IsFactory(log[1], "of")
            /\ log = JOptional_of(op.f, op.t.val).log
            /\ result = Outcome(JOptional_of(op.f, op.t.val))
            /\ result.tag = "Ok" => result.val.value = OptionalOfObj(as_ref(op.t.val))
       ELSE /\ IsFactory(log[1], "empty")
            /\ log = JOptional_empty(op.f).log
            /\ result = Outcome(JOptional_empty(op.f))
            /\ result.tag = "Ok" => result.val.value = OptionalEmptyObj
    /\ result.tag = "Ok" => result.val.value # Null
    /\ result.tag = "Err" => (CallFailed /\ result.err = MANAGED_CALL_FAILURE)

C6_Witness ==
  /\ pc = "done"
  /\ op.name = "JOptional::from_optional"
  /\ ~op.t.some
  /\ result.tag = "Ok"
  /\ result.val.value = OptionalEmptyObj

(***************************************************************************)
(* C7.  Every wrapper returned, by an operation or inside one, refers to   *)
(* an object of the class the wrapper expects and holds the validated      *)
(* decoding of that object's fields; no wrapper is returned by an          *)
(* operation in which a check, a parse, an extraction or a managed call    *)
(* failed.                                                                 *)
(***************************************************************************)
\* The native fields of wrapper w of the given kind decode its object.
Decodes(kind, w) ==
  CASE kind = CLS_ENTITY_TYPE_NAME ->
         /\ w.obj.namespace.cls = CLS_LIST
         /\ \A i \in 1..Len(w.obj.namespace.items) :
              w.obj.namespace.items[i].cls = CLS_STRING
         /\ w.obj.basename.cls = CLS_STRING
         /\ LET ns == [i \in 1..Len(w.obj.namespace.items) |->
                         w.obj.namespace.items[i].chars]
                r == EntityTypeName_from_str(Canonical(ns, w.obj.basename.chars))
            IN /\ ~AnyHasSeparator(ns, w.obj.basename.chars)
               /\ r.ok
               /\ w.type_name = r.val
    [] kind = CLS_ENTITY_IDENTIFIER ->
         /\ w.obj.id.cls = CLS_STRING
         /\ w.id = [id |-> w.obj.id.chars]
    [] kind = CLS_CONFIG ->
         /\ w.formatter_config.line_width = w.obj.lineWidth
         /\ w.formatter_config.line_width >= 0
         /\ w.formatter_config.indent_width = w.obj.indentWidth
    [] kind = CLS_STRING -> w.cls = CLS_STRING
    [] OTHER -> TRUE

ValidWrapper(kind, w) ==
  /\ as_ref(w).cls = kind
  /\ Decodes(kind, w)

WrapperOps ==
  CastOps \cup {"JEntityTypeName::new", "JEntityTypeName::try_from", "JEntityId::new",
                "JEntityId::try_from", "JEntityUID::new", "JPolicy::new"}

C7_WrappersValid ==
  pc = "done" =>
    /\ \A i \in 1..Len(log) :
         log[i].ev = "return" => ValidWrapper(ExpectedClass(log[i].what), log[i].wrapper)
    /\ (op.name \in WrapperOps /\ result.tag = "Ok") =>
         /\ ValidWrapper(ExpectedClass(op.name), result.val)
         /\ ~CallFailed
    /\ (op.name \in CastOps /\ result.tag = "Ok") => as_ref(result.val) = op.obj

C7_Witness ==
  /\ pc = "done"
  /\ op.name = "JEntityId::new"
  /\ op.str = <<"a", ":">>
  /\ result.tag = "Ok"
  /\ result.val.id = [id |-> <<"a", ":">>]
  /\ result.val.obj = EntityIdentifierCtor(JStr(<<"a", ":">>))

(***************************************************************************)
(* C8.  No silent mangling.  A wrapper returned by JEntityTypeName::new or *)
(* JEntityTypeName::cast for given components holds exactly those          *)
(* namespace components, in order, and exactly that basename; components   *)
(* whose canonical join the Cedar grammar would read as other components   *)
(* are rejected with parse-failure.                                        *)
(***************************************************************************)
\* The components an operation was given, once they were all read.
C8_Given ==
  IF op.name = "JEntityTypeName::new"
  THEN [path |-> op.namespace, id |-> op.basename]
  ELSE [path |-> [i \in 1..Len(op.obj.namespace.items) |->
                    op.obj.namespace.items[i].chars],
        id |-> op.obj.basename.chars]

\* The operation was given components: every one is a string it could read.
C8_ComponentsRead ==
  \/ op.name = "JEntityTypeName::new"
  \/ /\ op.obj.cls = CLS_ENTITY_TYPE_NAME
     /\ op.obj.namespace.cls = CLS_LIST
     /\ \A i \in 1..Len(op.obj.namespace.items) :
          op.obj.namespace.items[i].cls = CLS_STRING
     /\ op.obj.basename.cls = CLS_STRING
     /\ ~CallFailed

C8_NoSilentMangling ==
  (pc = "done" /\ op.name \in {"JEntityTypeName::new", "JEntityTypeName::cast"}) =>
    /\ result.tag = "Ok" =>
         /\ result.val.type_name.path = C8_Given.path
         /\ result.val.type_name.id = C8_Given.id
    /\ C8_ComponentsRead =>
         LET r == parse_name(Canonical(C8_Given.path, C8_Given.id))
         IN (~r.ok \/ r.val # C8_Given) =>
              /\ result.tag = "Err"
              /\ result.err = PARSE_FAILURE

C8_Witness ==
  /\ pc = "done"
  /\ op.name = "JEntityTypeName::new"
  /\ op.namespace = <<<<"a", " ">>>>
  /\ op.basename = <<"a">>
  /\ parse_name(Canonical(op.namespace, op.basename)).ok
  /\ result.tag = "Err"
  /\ result.err = PARSE_FAILURE

(***************************************************************************)
(* C9.  With no managed call failing, JEntityTypeName::try_from(v) returns *)
(* a wrapper holding v and JEntityId::try_from(i) a wrapper holding i.  In *)
(* JEntityUID::parse of a source that parses to (v, i) the sub-wrappers    *)
(* returned hold i and v, both are returned before the EntityUID           *)
(* constructor is called, and that is called before Optional.of.           *)
(***************************************************************************)
C9_NativeRoundTrip ==
  /\ (pc = "done" /\ op.name = "JEntityTypeName::try_from" /\ ~CallFailed) =>
       /\ result.tag = "Ok"
       /\ result.val.type_name = op.etype
  /\ (pc = "done" /\ op.name = "JEntityId::try_from" /\ ~CallFailed) =>
       /\ result.tag = "Ok"
       /\ result.val.id = op.id
  /\ (pc = "done" /\ op.name = "JEntityUID::parse" /\ EntityUid_from_str(op.src).ok) =>
       LET e == EntityUid_from_str(op.src).val
       IN /\ \A k \in 1..Len(log) :
               /\ IsReturnOf(log[k], "JEntityId") => log[k].wrapper.id = e.eid
               /\ IsReturnOf(log[k], "JEntityTypeName") => log[k].wrapper.type_name = e.ty
               /\ IsCtorOf(log[k], CLS_ENTITY_UID) =>
                    /\ \E i \in 1..(k - 1) : IsReturnOf(log[i], "JEntityId")
                    /\ \E i \in 1..(k - 1) : IsReturnOf(log[i], "JEntityTypeName")
               /\ IsFactory(log[k], "of") =>
                    \E i \in 1..(k - 1) : IsCtorOf(log[i], CLS_ENTITY_UID)
          /\ ~CallFailed =>
               /\ result.tag = "Ok"
               /\ IsFactory(log[Len(log)], "of")
               /\ \E k \in 1..Len(log) :
                    /\ IsReturnOf(log[k], "JEntityUID")
                    /\ result.val.value = OptionalOfObj(log[k].wrapper.obj)
                    /\ \E i \in 1..Len(log) :
                         /\ IsReturnOf(log[i], "JEntityId")
                         /\ log[k].wrapper.obj.id = log[i].wrapper.obj
                    /\ \E i \in 1..Len(log) :
                         /\ IsReturnOf(log[i], "JEntityTypeName")
                         /\ log[k].wrapper.obj.type = log[i].wrapper.obj

C9_Witness ==
  /\ pc = "done"
  /\ op.name = "JEntityUID::parse"
  /\ op.src = <<"a", ":", ":", "a", "a", ":", ":", Quote, ":", Quote>>
  /\ result.tag = "Ok"
  /\ \E k \in 1..Len(log) :
       /\ IsReturnOf(log[k], "JEntityTypeName")
       /\ log[k].wrapper.type_name = [path |-> <<<<"a">>>>, id |-> <<"a", "a">>]
  /\ \E k \in 1..Len(log) :
       /\ IsReturnOf(log[k], "JEntityId")
       /\ log[k].wrapper.id = [id |-> <<":">>]

(***************************************************************************)
(* C10.  One JEntityTypeName::cast runs its steps in the order class       *)
(* check, getNamespace, getBaseName, then the marshalling, the validation  *)
(* and the parse; the string parsed is the namespace components in list    *)
(* order, then the basename, joined by "::"; no managed object is          *)
(* allocated.                                                              *)
(***************************************************************************)
CastSteps == <<"assert_is_class", "getNamespace", "getBaseName", "assert_is_class",
               "get_string", "jstr_list_to_rust_vec", "parse", "return">>

StepOf(e) == IF e.ev = "call_method" THEN e.what ELSE e.ev

C10_ExtractionOrder ==
  (pc = "done" /\ op.name = "JEntityTypeName::cast") =>
    /\ Len(log) <= Len(CastSteps)
    /\ \A i \in 1..Len(log) : StepOf(log[i]) = CastSteps[i]
    /\ \A i \in 1..Len(log) : ~IsAllocation(log[i])
    /\ \A i \in 1..Len(log) :
         log[i].ev = "parse" =>
           log[i].src = Join([k \in 1..(Len(op.obj.namespace.items) + 1) |->
                                IF k <= Len(op.obj.namespace.items)
                                THEN op.obj.namespace.items[k].chars
                                ELSE op.obj.basename.chars], Sep)
    /\ result.tag = "Ok" => Len(log) = Len(CastSteps)

C10_Witness ==
  /\ pc = "done"
  /\ op.name = "JEntityTypeName::cast"
  /\ op.obj = EntityTypeNameCtor(JStrList(<<<<"a">>, <<"a", "a">>>>), JStr(<<"a">>))
  /\ result.tag = "Ok"
  /\ \E i \in 1..Len(log) :
       log[i].ev = "parse" /\ log[i].src = <<"a", ":", ":", "a", "a", ":", ":", "a">>

====
